---- MODULE Spec2Model ----
(***************************************************************************)
(* A model of kdsb17/model.py: the layer graphs that GaussianMixtureCAE    *)
(* and LungNet build, the transfer of weights by layer name, the input     *)
(* check of predict and the decoding of the Gaussian mixture parameters.   *)
(*                                                                         *)
(* Tensors are represented by their shapes without the batch axis, with    *)
(* channels last: <<z, y, x, channels>>.  An unspecified dimension         *)
(* (Python's None) is NoneDim.  Arrays handed to predict are represented   *)
(* by their dtype and shape; the output of the network is drawn from       *)
(* bounded sets because the weights are arbitrary.                         *)
(***************************************************************************)
EXTENDS Integers, Sequences, FiniteSets, TLC

VARIABLES
    uid,        \* the framework's per-process counters for automatic layer names
    cae,        \* the GaussianMixtureCAE object
    lung,       \* the LungNet object
    file,       \* the weights file written by the checkpointer
    arg,        \* the array of the last predict call
    pred,       \* the rows the underlying model returned in the last predict call
    ret,        \* what the last predict call returned or raised
    invoked,    \* whether the last predict call invoked the underlying model's predict
    prev_ok     \* the (z, y, x) of the last earlier array LungNet.predict returned a result for

vars == <<uid, cae, lung, file, arg, pred, ret, invoked, prev_ok>>

---------------------------------------------------------------------------
(* Bounds of the model.                                                    *)

MaxBatch == 2
MaxDim == 2
MaxGaussians == 2
MaxUid == 2

(* Python's None as a dimension of a symbolic shape (Input(shape=(None,    *)
(* None, None, 1))).                                                       *)
NoneDim == -1

(* Sizes of the hidden dense layers of the mixture head.                   *)
n_dense_log_prior == 128
n_dense_sigma_sq == 128

None == [none |-> TRUE]

---------------------------------------------------------------------------
(* Arithmetic helpers.                                                     *)

Max(a, b) == IF a >= b THEN a ELSE b

RECURSIVE Prod(_)
Prod(s) == IF s = <<>> THEN 1 ELSE Head(s) * Prod(Tail(s))

RECURSIVE Sum(_)
Sum(s) == IF s = <<>> THEN 0 ELSE Head(s) + Sum(Tail(s))

Reverse(s) == [i \in 1..Len(s) |-> s[Len(s) + 1 - i]]

RECURSIVE Pow(_, _)
Pow(b, e) == IF e = 0 THEN 1 ELSE b * Pow(b, e - 1)

---------------------------------------------------------------------------
(* Shape arithmetic of the layers the code instantiates.                   *)

(* Output length of a convolution along one axis.                          *)
conv_output_length(n, k, s, padding) ==
    IF n = NoneDim THEN NoneDim
    ELSE LET full == IF padding = "same" THEN n ELSE n - k + 1
         IN  (full + s - 1) \div s

(* Output length of a transposed convolution along one axis.               *)
deconv_length(n, k, s, padding) ==
    IF n = NoneDim THEN NoneDim
    ELSE IF padding = "valid" THEN n * s + Max(k - s, 0)
    ELSE n * s

(* A 'valid' convolution needs at least a kernel's length of input.        *)
ConvFits(n, k, padding) == n = NoneDim \/ padding = "same" \/ n >= k

---------------------------------------------------------------------------
(* The layer graph under construction: the layers created so far, the      *)
(* counters of automatic names and the exception raised, if any.  Once an  *)
(* exception is raised nothing more is created.                            *)

Layer(name, cls, out, w, part) ==
    [name |-> name, cls |-> cls, out |-> out, w |-> w, part |-> part]

AddLayer(g, l) == IF g.err # "none" THEN g ELSE [g EXCEPT !.layers = Append(@, l)]

Raise(g, e) == IF g.err # "none" THEN g ELSE [g EXCEPT !.err = e]

GT(g, t) == [g |-> g, t |-> t]

(* The name the framework gives a layer created without one.               *)
AutoName(g, prefix) == prefix \o "_" \o ToString(g.uid[prefix])

TakeUid(g, prefix) == IF g.err # "none" THEN g ELSE [g EXCEPT !.uid[prefix] = @ + 1]

(* Every layer operator takes the graph and the tensor it is applied to,   *)
(* gt = [g, t], and gives the graph and the tensor that result.            *)

InputLayer(g, shape) ==
    GT(AddLayer(TakeUid(g, "input"), Layer(AutoName(g, "input"), "InputLayer", shape, <<>>, "input")),
       shape)

Conv3DShape(t, filters, ks, strides, padding) ==
    <<conv_output_length(t[1], ks[1], strides, padding),
      conv_output_length(t[2], ks[2], strides, padding),
      conv_output_length(t[3], ks[3], strides, padding),
      filters>>

Conv3D(gt, filters, ks, strides, padding, name, part) ==
    IF gt.g.err # "none" THEN gt
    ELSE IF \E a \in 1..3 : ~ConvFits(gt.t[a], ks[a], padding)
         THEN GT(Raise(gt.g, "ValueError"), gt.t)
    ELSE GT(AddLayer(gt.g, Layer(name, "Conv3D", Conv3DShape(gt.t, filters, ks, strides, padding),
                                 << <<ks[1], ks[2], ks[3], gt.t[4], filters>>, <<filters>> >>, part)),
            Conv3DShape(gt.t, filters, ks, strides, padding))

Conv3DTransposeShape(t, filters, ks, strides, padding) ==
    <<deconv_length(t[1], ks[1], strides, padding),
      deconv_length(t[2], ks[2], strides, padding),
      deconv_length(t[3], ks[3], strides, padding),
      filters>>

Conv3DTranspose(gt, filters, ks, strides, padding, name, part) ==
    IF gt.g.err # "none" THEN gt
    ELSE GT(AddLayer(gt.g, Layer(name, "Conv3DTranspose", Conv3DTransposeShape(gt.t, filters, ks, strides, padding),
                                 << <<ks[1], ks[2], ks[3], filters, gt.t[4]>>, <<filters>> >>, part)),
            Conv3DTransposeShape(gt.t, filters, ks, strides, padding))

(* BatchNormalization over `axis` of the batched shape: axis 1 is the      *)
(* first spatial axis of a channels-last tensor.  The axis must have a     *)
(* defined dimension; the layer holds four vectors of that length.         *)
BatchNormalization(gt, axis, name, part) ==
    IF gt.g.err # "none" THEN gt
    ELSE IF gt.t[axis] = NoneDim THEN GT(Raise(gt.g, "ValueError"), gt.t)
    ELSE GT(AddLayer(gt.g, Layer(name, "BatchNormalization", gt.t,
                                 << <<gt.t[axis]>>, <<gt.t[axis]>>, <<gt.t[axis]>>, <<gt.t[axis]>> >>, part)),
            gt.t)

Activation(gt, name, part) ==
    IF gt.g.err # "none" THEN gt
    ELSE GT(AddLayer(gt.g, Layer(name, "Activation", gt.t, <<>>, part)), gt.t)

Flatten(gt, name, part) ==
    IF gt.g.err # "none" THEN gt
    ELSE IF \E a \in 1..Len(gt.t) : gt.t[a] = NoneDim THEN GT(Raise(gt.g, "ValueError"), gt.t)
    ELSE GT(AddLayer(gt.g, Layer(name, "Flatten", <<Prod(gt.t)>>, <<>>, part)), <<Prod(gt.t)>>)

Dense(gt, units, name, part) ==
    IF gt.g.err # "none" THEN gt
    ELSE IF gt.t[Len(gt.t)] = NoneDim THEN GT(Raise(gt.g, "ValueError"), gt.t)
    ELSE GT(AddLayer(gt.g, Layer(name, "Dense", <<units>>,
                                 << <<gt.t[Len(gt.t)], units>>, <<units>> >>, part)),
            <<units>>)

(* A Dense layer created without a name.                                   *)
DenseAuto(gt, units, part) ==
    Dense(GT(TakeUid(gt.g, "dense"), gt.t), units, AutoName(gt.g, "dense"), part)

DropoutAuto(gt, part) ==
    IF gt.g.err # "none" THEN gt
    ELSE GT(AddLayer(TakeUid(gt.g, "dropout"), Layer(AutoName(gt.g, "dropout"), "Dropout", gt.t, <<>>, part)),
            gt.t)

ShiftedELU(gt, name, part) ==
    IF gt.g.err # "none" THEN gt
    ELSE GT(AddLayer(gt.g, Layer(name, "ShiftedELU", gt.t, <<>>, part)), gt.t)

(* Concatenation along the last axis of the tensors ts; gt.t is unused.    *)
Concatenate(gt, ts, name, part) ==
    IF gt.g.err # "none" THEN gt
    ELSE GT(AddLayer(gt.g, Layer(name, "Concatenate", <<Sum([i \in 1..Len(ts) |-> ts[i][1]])>>, <<>>, part)),
            <<Sum([i \in 1..Len(ts) |-> ts[i][1]])>>)

(* Spatial pyramid pooling: every level of b bins per axis pools each      *)
(* feature map to b*b*b values whatever the spatial size.                  *)
SpatialPyramidPooling3D(gt, bins, name, part) ==
    IF gt.g.err # "none" THEN gt
    ELSE GT(AddLayer(gt.g, Layer(name, "SpatialPyramidPooling3D",
                                 <<gt.t[4] * Sum([i \in 1..Len(bins) |-> bins[i] * bins[i] * bins[i]])>>, <<>>, part)),
            <<gt.t[4] * Sum([i \in 1..Len(bins) |-> bins[i] * bins[i] * bins[i]])>>)

---------------------------------------------------------------------------
(* class Encoder                                                           *)

custom_conv3d_bn(self, gt, name) ==
    IF self.batch_normalization THEN BatchNormalization(gt, 1, "encoder_bn_" \o name, "encoder") ELSE gt

custom_conv3d(self, gt, nb_filters, strides, name) ==
    Activation(
        custom_conv3d_bn(self,
            Conv3D(gt, nb_filters, self.kernel_size, strides, self.padding, "encoder_conv_" \o name, "encoder"),
            name),
        "encoder_act_" \o name, "encoder")

(* One turn of the loop of _build_encoder_layers, and the turns after it;  *)
(* i is the position in nb_filters_per_layer, counted from 0.              *)
RECURSIVE encoder_loop(_, _, _)
encoder_loop(self, gt, i) ==
    IF i >= Len(self.nb_filters_per_layer) THEN gt
    ELSE encoder_loop(self,
            custom_conv3d(self,
                custom_conv3d(self, gt, self.nb_filters_per_layer[i + 1], 1, "1-2_" \o ToString(i)),
                self.nb_filters_per_layer[i + 1], 2, "2-1_" \o ToString(i)),
            i + 1)

build_encoder_layers(self, gt) == encoder_loop(self, gt, 0)

---------------------------------------------------------------------------
(* class GaussianMixtureCAE                                                *)

custom_conv3dtranspose_bn(self, gt, name) ==
    IF self.batch_normalization THEN BatchNormalization(gt, 1, "decoder_bn_" \o name, "decoder") ELSE gt

custom_conv3dtranspose(self, gt, nb_filters, strides, name) ==
    Activation(
        custom_conv3dtranspose_bn(self,
            Conv3DTranspose(gt, nb_filters, self.kernel_size, strides, self.padding, "decoder_conv_" \o name, "decoder"),
            name),
        "decoder_act_" \o name, "decoder")

RECURSIVE decoder_loop(_, _, _)
decoder_loop(self, gt, i) ==
    IF i >= Len(self.nb_filters_per_layer) THEN gt
    ELSE decoder_loop(self,
            custom_conv3dtranspose(self,
                custom_conv3dtranspose(self, gt, Reverse(self.nb_filters_per_layer)[i + 1], 2, "2-1_" \o ToString(i)),
                Reverse(self.nb_filters_per_layer)[i + 1], 1, "1-2_" \o ToString(i)),
            i + 1)

build_decoder_layers(self, gt) == decoder_loop(self, gt, 0)

(* The three branches of _build_gmd_layers, each continuing the graph of   *)
(* the one before, and the concatenation.                                  *)
gmd_log_prior(self, g, encoded) ==
    Dense(Dense(Flatten(Conv3D(GT(g, encoded), 1, self.kernel_size, 1, "same", "log_prior_conv3d", "gmd"),
                        "log_prior_flatten", "gmd"),
                n_dense_log_prior, "log_prior_dense_1", "gmd"),
          self.n_gaussians, "log_prior", "gmd")

gmd_mu(self, g, decoded) ==
    Flatten(Conv3D(GT(g, decoded), self.n_gaussians, self.kernel_size, 1, "same", "mu_conv3d", "gmd"),
            "mu", "gmd")

gmd_sigma_sq(self, g, encoded) ==
    ShiftedELU(Dense(Dense(Flatten(Conv3D(GT(g, encoded), 1, self.kernel_size, 1, "same", "sigma_sq_conv3d", "gmd"),
                                   "sigma_sq_flatten", "gmd"),
                           n_dense_sigma_sq, "sigma_sq_dense_1", "gmd"),
                     self.n_gaussians, "sigma_sq_dense_2", "gmd"),
               "sigma_sq", "gmd")

gmd_from_mu(self, log_prior, mu, encoded) ==
    LET sigma_sq == gmd_sigma_sq(self, mu.g, encoded)
    IN  Concatenate(sigma_sq, <<log_prior.t, sigma_sq.t, mu.t>>, "gmd", "gmd")

gmd_from_log_prior(self, log_prior, encoded, decoded) ==
    gmd_from_mu(self, log_prior, gmd_mu(self, log_prior.g, decoded), encoded)

build_gmd_layers(self, g, encoded, decoded) ==
    gmd_from_log_prior(self, gmd_log_prior(self, g, encoded), encoded, decoded)

CAE_decode(self, encoded) ==
    LET decoded == build_decoder_layers(self, encoded)
    IN  build_gmd_layers(self, decoded.g, encoded.t, decoded.t)

CAE_build_layers(self, g) ==
    CAE_decode(self,
        build_encoder_layers(self,
            InputLayer(g, <<self.input_shape[1], self.input_shape[2], self.input_shape[3], 1>>)))

(* The object GaussianMixtureCAE.__init__ leaves: its arguments, the loss  *)
(* built for c = z*y*x output dimensions, and no model yet.                *)
GaussianMixtureCAE(n_gaussians, input_shape, nb_filters_per_layer, kernel_size, padding, batch_normalization) ==
    [cls |-> "GaussianMixtureCAE",
     n_gaussians |-> n_gaussians,
     input_shape |-> input_shape,
     nb_filters_per_layer |-> nb_filters_per_layer,
     kernel_size |-> kernel_size,
     padding |-> padding,
     batch_normalization |-> batch_normalization,
     loss |-> [c |-> input_shape[1] * input_shape[2] * input_shape[3], m |-> n_gaussians],
     created |-> <<>>,
     err |-> "none",
     model |-> None,
     loaded |-> "none"]

---------------------------------------------------------------------------
(* class LungNet                                                           *)

dense_dropout(self, gt) ==
    IF self.dropout_rate # 0 THEN DropoutAuto(gt, "classifier") ELSE gt

RECURSIVE dense_loop(_, _, _)
dense_loop(self, h, i) ==
    IF i > Len(self.n_dense) THEN h
    ELSE dense_loop(self, dense_dropout(self, DenseAuto(h, self.n_dense[i], "classifier")), i + 1)

build_classifier_layers(self, encoded) ==
    DenseAuto(dense_loop(self,
                         SpatialPyramidPooling3D(encoded, self.spp_nb_bins_per_level, "spp3d", "classifier"),
                         1),
              1, "classifier")

(* An input layer of a fixed spatial size instead of an unspecified one.   *)
Lung_build_layers_fixed(self, g) ==
    build_classifier_layers(self,
        build_encoder_layers(self, InputLayer(g, <<2, 2, 2, 1>>)))

Lung_build_layers(self, g) ==
    build_classifier_layers(self,
        build_encoder_layers(self, InputLayer(g, <<NoneDim, NoneDim, NoneDim, 1>>)))

LungNet(nb_filters_per_layer, kernel_size, padding, batch_normalization, spp_nb_bins_per_level, n_dense, dropout_rate) ==
    [cls |-> "LungNet",
     nb_filters_per_layer |-> nb_filters_per_layer,
     kernel_size |-> kernel_size,
     padding |-> padding,
     batch_normalization |-> batch_normalization,
     spp_nb_bins_per_level |-> spp_nb_bins_per_level,
     n_dense |-> n_dense,
     dropout_rate |-> dropout_rate,
     loss |-> "binary_crossentropy",
     created |-> <<>>,
     err |-> "none",
     model |-> None,
     loaded |-> "none"]

---------------------------------------------------------------------------
(* class NakedModel: build_model with the default freeze=None.             *)
(* _build_layers runs first; if it raises, self._model keeps its value.    *)
(* A model holds its layers and, per layer, the value of its weights: the  *)
(* freshly initialised weights of layer n of class c are Fresh(c, n).      *)

Fresh(cls, name) == [origin |-> cls, layer |-> name, trained |-> FALSE]

Graph0(u) == [layers |-> <<>>, uid |-> u, err |-> "none"]

build_layers(self, g) ==
    IF self.cls = "GaussianMixtureCAE" THEN CAE_build_layers(self, g).g ELSE Lung_build_layers(self, g).g

Model(self, layers) ==
    [layers |-> layers,
     weights |-> [i \in 1..Len(layers) |-> Fresh(self.cls, layers[i].name)]]

Built(self, b) ==
    [self EXCEPT !.created = b.layers,
                 !.err = b.err,
                 !.model = IF b.err = "none" THEN Model(self, b.layers) ELSE @,
                 !.loaded = IF b.err = "none" THEN "none" ELSE @]

(* The object after build_model, given the counters u before it.           *)
build_model(self, u) == Built(self, build_layers(self, Graph0(u)))

(* The counters after build_model.                                         *)
build_model_uid(self, u) == build_layers(self, Graph0(u)).uid

---------------------------------------------------------------------------
(* NakedModel._check_input_array: the exception it raises, or NoExc.       *)
(* An array is its dtype and its shape.                                    *)

Array(dtype, shape) == [dtype |-> dtype, shape |-> shape]

ndim(x) == Len(x.shape)

NoExc == [exc |-> "none", msg |-> ""]

Exc(e, msg) == [exc |-> e, msg |-> msg]

(* The tests in another order: the number of dimensions before the dtype.  *)
check_input_array_ndim_first(x) ==
    IF ndim(x) # 5 THEN Exc("ValueError", "Input array must have exactly 5 dimensions: (samples, z, y, z, channels)")
    ELSE IF x.dtype # "float32" THEN Exc("ValueError", "Input array must be of type float32.")
    ELSE IF x.shape[ndim(x)] # 1 THEN Exc("ValueError", "Size of last dimension of input array must be exactly 1.")
    ELSE NoExc

check_input_array(x) ==
    IF x.dtype # "float32" THEN Exc("ValueError", "Input array must be of type float32.")
    ELSE IF ndim(x) # 5 THEN Exc("ValueError", "Input array must have exactly 5 dimensions: (samples, z, y, z, channels)")
    ELSE IF x.shape[ndim(x)] # 1 THEN Exc("ValueError", "Size of last dimension of input array must be exactly 1.")
    ELSE NoExc

---------------------------------------------------------------------------
(* The underlying model's predict.  It compares the array with the shape   *)
(* of the input layer (an unspecified dimension matches any size), then    *)
(* runs the layers on the array, which fails if a convolution is left      *)
(* without input, and returns one row per sample.                          *)

InputMatches(input_shape, x) ==
    /\ ndim(x) = Len(input_shape) + 1
    /\ \A a \in 1..Len(input_shape) : input_shape[a] = NoneDim \/ input_shape[a] = x.shape[a + 1]

(* The encoder run on a batch of the given spatial size: the size it       *)
(* leaves, or an error.                                                    *)
EncoderRuns(self, spatial) ==
    build_encoder_layers([self EXCEPT !.batch_normalization = FALSE],
                         GT(Graph0(<<>>), <<spatial[1], spatial[2], spatial[3], 1>>)).g.err = "none"

ModelInputShape(self) == self.model.layers[1].out

ModelOutputLen(self) == self.model.layers[Len(self.model.layers)].out[1]

(* Row-major (C order) position, counted from 0, of index idx in an array  *)
(* of shape dims; indices count from 0.                                    *)
RECURSIVE Ravel(_, _)
Ravel(idx, dims) ==
    IF idx = <<>> THEN 0
    ELSE Ravel(SubSeq(idx, 1, Len(idx) - 1), SubSeq(dims, 1, Len(dims) - 1)) * dims[Len(dims)] + idx[Len(idx)]

(* The index, counted from 0, of row-major position f in shape dims.       *)
RECURSIVE Unravel(_, _)
Unravel(f, dims) ==
    IF dims = <<>> THEN <<>>
    ELSE Append(Unravel(f \div dims[Len(dims)], SubSeq(dims, 1, Len(dims) - 1)), f % dims[Len(dims)])

(* The value the network's mu layer gives voxel (z, y, x) of sample n for  *)
(* gaussian k: the values are drawn pairwise distinct, so that a value     *)
(* tells which position it came from.                                      *)
MuValue(n, z, y, x, k) == 10000 * (n + 1) + 1000 * z + 100 * y + 10 * x + k

(* The output of the last three layers for sample n: 'mu' flattens the     *)
(* tensor of shape (z, y, x, n_gaussians) that mu_conv3d produces, and     *)
(* 'gmd' concatenates [log_prior, sigma_sq, mu].                           *)
MuConvShape(self) == (CHOOSE l \in {self.model.layers[i] : i \in 1..Len(self.model.layers)} : l.name = "mu_conv3d").out

FlattenMu(self, n) ==
    LET dims == MuConvShape(self)
    IN  [f \in 1..Prod(dims) |->
            LET i == Unravel(f - 1, dims) IN MuValue(n, i[1], i[2], i[3], i[4])]

GmdRow(self, n, out) == out.log_prior[n + 1] \o out.sigma_sq[n + 1] \o FlattenMu(self, n)

keras_predict(self, x, out) ==
    IF ~InputMatches(ModelInputShape(self), x)
        THEN [exc |-> Exc("ValueError", "Error when checking input"), rows |-> <<>>]
    ELSE IF ~EncoderRuns(self, SubSeq(x.shape, 2, 4))
        THEN [exc |-> Exc("InvalidArgumentError", "Negative dimension size"), rows |-> <<>>]
    ELSE IF self.cls = "GaussianMixtureCAE"
        THEN [exc |-> NoExc, rows |-> [r \in 1..x.shape[1] |-> GmdRow(self, r - 1, out)]]
    ELSE [exc |-> NoExc, rows |-> [r \in 1..x.shape[1] |-> <<out.p[r]>>]]

---------------------------------------------------------------------------
(* GaussianMixtureCAE.predict: the numpy steps after the model's output.   *)

(* The values the network can give a log-prior and a variance.  Log-priors *)
(* are multiples of ln 2 and variances are squares, so that exp and sqrt   *)
(* are exact: exp(l * ln 2) = 2^l.                                         *)
LogPriors == {-1, 0}
Variances == {1, 4}

MinLogPrior == CHOOSE v \in LogPriors : \A w \in LogPriors : v <= w

(* exp(log_prior) / sqrt(sigma_sq) as a fraction <<numerator, denominator>> *)
(* over the common factor 2^MinLogPrior.                                   *)
np_sqrt(q) == CHOOSE r \in 0..q : r * r = q

np_exp(l) == Pow(2, l - MinLogPrior)

Ratio(l, q) == <<np_exp(l), np_sqrt(q)>>

Less(a, b) == a[1] * b[2] < b[1] * a[2]

(* numpy's argmax: the first position, counted from 0, of a largest value. *)
argmax(v) ==
    (CHOOSE i \in 1..Len(v) : (\A j \in 1..Len(v) : ~Less(v[i], v[j])) /\ (\A j \in 1..(i - 1) : Less(v[j], v[i]))) - 1

(* row[a:b] of Python.                                                     *)
Slice(row, a, b) == SubSeq(row, a + 1, IF b < Len(row) THEN b ELSE Len(row))

RECURSIVE Concat(_)
Concat(rows) == IF rows = <<>> THEN <<>> ELSE Head(rows) \o Concat(Tail(rows))

(* numpy's rule for the shape two index arrays broadcast to along their    *)
(* last axis.                                                              *)
Broadcastable(a, b) == a = b \/ a = 1 \/ b = 1

Returned(shape, data) == [kind |-> "array", shape |-> shape, data |-> data]

Raised(e) == [kind |-> "raise", exc |-> e.exc, msg |-> e.msg]

(* Lines 301-314, given the rows the model returned.                       *)
gmd_reconstruction(self, array, rows) ==
    LET m  == self.n_gaussians
        N  == array.shape[1]
        z  == array.shape[2]
        y  == array.shape[3]
        x  == array.shape[4]
        log_prior == [r \in 1..Len(rows) |-> Slice(rows[r], 0, m)]
        sigma_sq  == [r \in 1..Len(rows) |-> Slice(rows[r], m, 2 * m)]
        mu_flat   == Concat([r \in 1..Len(rows) |-> Slice(rows[r], 2 * m, Len(rows[r]))])
        samples   == Len(mu_flat) \div (z * y * x * m)
        mu(i)     == mu_flat[Ravel(i, <<samples, z, y, x, m>>) + 1]
        which     == [r \in 1..Len(rows) |->
                         argmax([k \in 1..m |-> Ratio(log_prior[r][k], sigma_sq[r][k])])]
        w         == Max(x, N)
    IN  IF Len(mu_flat) % (z * y * x * m) # 0
            THEN Raised(Exc("ValueError", "cannot reshape array"))
        ELSE IF ~Broadcastable(x, N)
            THEN Raised(Exc("IndexError", "shape mismatch: indexing arrays could not be broadcast together"))
        ELSE IF samples < N
            THEN Raised(Exc("IndexError", "index out of bounds"))
        ELSE Returned(<<N, z, y, w, 1>>,
                      [i \in (0..(N - 1)) \X (0..(z - 1)) \X (0..(y - 1)) \X (0..(w - 1)) \X {0} |->
                          mu(<<i[1], i[2], i[3],
                               IF x = 1 THEN 0 ELSE i[4],
                               which[IF N = 1 THEN 1 ELSE i[4] + 1]>>)])

(* GaussianMixtureCAE.predict: what it returns or raises, the model's      *)
(* output, and whether the model's predict was invoked.                    *)
CAE_predict(self, array, out) ==
    LET chk == check_input_array(array)
        res == keras_predict(self, array, out)
    IN  IF chk # NoExc
            THEN [ret |-> Raised(chk), pred |-> None, invoked |-> FALSE]
        ELSE IF self.model = None
            THEN [ret |-> Raised(Exc("AttributeError", "'NoneType' object has no attribute 'predict'")),
                  pred |-> None, invoked |-> FALSE]
        ELSE IF res.exc # NoExc
            THEN [ret |-> Raised(res.exc), pred |-> None, invoked |-> TRUE]
        ELSE [ret |-> gmd_reconstruction(self, array, res.rows), pred |-> [rows |-> res.rows], invoked |-> TRUE]

(* LungNet.predict.                                                        *)
Lung_predict(self, x, out) ==
    LET chk == check_input_array(x)
        res == keras_predict(self, x, out)
    IN  IF chk # NoExc
            THEN [ret |-> Raised(chk), pred |-> None, invoked |-> FALSE]
        ELSE IF self.model = None
            THEN [ret |-> Raised(Exc("AttributeError", "'NoneType' object has no attribute 'predict'")),
                  pred |-> None, invoked |-> FALSE]
        ELSE IF res.exc # NoExc
            THEN [ret |-> Raised(res.exc), pred |-> None, invoked |-> TRUE]
        ELSE [ret |-> Returned(<<x.shape[1], 1>>, res.rows), pred |-> [rows |-> res.rows], invoked |-> TRUE]

GaussianMixtureCAE_predict(array, out) ==
    /\ cae # None
    /\ arg = None
    /\ LET r == CAE_predict(cae, array, out)
       IN  /\ arg' = [self |-> "GaussianMixtureCAE", array |-> array]
           /\ ret' = r.ret
           /\ pred' = r.pred
           /\ invoked' = r.invoked
    /\ UNCHANGED <<uid, cae, lung, file, prev_ok>>

LungNet_predict(x, out) ==
    /\ lung # None
    /\ arg = None
    /\ LET r == Lung_predict(lung, x, out)
       IN  /\ arg' = [self |-> "LungNet", array |-> x]
           /\ ret' = r.ret
           /\ pred' = r.pred
           /\ invoked' = r.invoked
    /\ UNCHANGED <<uid, cae, lung, file, prev_ok>>

(* The caller takes what predict returned or raised and goes on; the next  *)
(* call starts from there.                                                 *)
Return ==
    /\ arg # None
    /\ arg' = None
    /\ pred' = None
    /\ ret' = None
    /\ invoked' = FALSE
    /\ prev_ok' = IF arg.self = "LungNet" /\ ret.kind = "array" THEN [spatial |-> SubSeq(arg.array.shape, 2, 4)] ELSE prev_ok
    /\ UNCHANGED <<uid, cae, lung, file>>

---------------------------------------------------------------------------
(* build_model, fit_generator and load_weights_from_file as steps of the   *)
(* program.                                                                *)

(* Training changes every weight of the model; the checkpointer then       *)
(* writes the weights, layer by layer under the layer's name, to the file. *)
Trained(self) ==
    [self EXCEPT !.loaded = "none", !.model.weights =
        [i \in DOMAIN @ |-> [origin |-> self.cls, layer |-> self.model.layers[i].name, trained |-> TRUE]]]

SavedWeights(self) ==
    [writer |-> self.cls,
     nb_filters_per_layer |-> self.nb_filters_per_layer,
     kernel_size |-> self.kernel_size,
     batch_normalization |-> self.batch_normalization,
     layers |-> [i \in 1..Len(self.model.layers) |->
                    [name |-> self.model.layers[i].name,
                     w |-> self.model.layers[i].w,
                     value |-> self.model.weights[i]]]]

FileEntry(f, name) == CHOOSE e \in {f.layers[i] : i \in 1..Len(f.layers)} : e.name = name

FileNames(f) == {f.layers[i].name : i \in 1..Len(f.layers)}

(* Loading by name: a layer of the model takes the weights the file holds  *)
(* under its name; a different number or shape of weights under that name  *)
(* is an error and nothing is loaded.                                      *)
LoadFails(self, f) ==
    \E i \in 1..Len(self.model.layers) :
        /\ self.model.layers[i].name \in FileNames(f)
        /\ FileEntry(f, self.model.layers[i].name).w # self.model.layers[i].w

load_weights_by_name(self, f) ==
    IF LoadFails(self, f) THEN self
    ELSE [self EXCEPT !.loaded = f.writer,
                      !.model.weights =
            [i \in DOMAIN @ |->
                IF self.model.layers[i].name \in FileNames(f) /\ self.model.layers[i].w # <<>>
                THEN FileEntry(f, self.model.layers[i].name).value
                ELSE @[i]]]

GaussianMixtureCAE_build_model ==
    /\ cae # None
    /\ uid["input"] <= MaxUid
    /\ cae' = build_model(cae, uid)
    /\ uid' = build_model_uid(cae, uid)
    /\ UNCHANGED <<lung, file, arg, pred, ret, invoked, prev_ok>>

LungNet_build_model ==
    /\ lung # None
    /\ uid["input"] <= MaxUid
    /\ lung' = build_model(lung, uid)
    /\ uid' = build_model_uid(lung, uid)
    /\ UNCHANGED <<cae, file, arg, pred, ret, invoked, prev_ok>>

GaussianMixtureCAE_fit_generator ==
    /\ cae # None
    /\ cae.model # None
    /\ cae' = Trained(cae)
    /\ file' = SavedWeights(Trained(cae))
    /\ UNCHANGED <<uid, lung, arg, pred, ret, invoked, prev_ok>>

LungNet_fit_generator ==
    /\ lung # None
    /\ lung.model # None
    /\ lung' = Trained(lung)
    /\ file' = SavedWeights(Trained(lung))
    /\ UNCHANGED <<uid, cae, arg, pred, ret, invoked, prev_ok>>

GaussianMixtureCAE_load_weights_from_file ==
    /\ cae # None
    /\ cae.model # None
    /\ file # None
    /\ cae' = load_weights_by_name(cae, file)
    /\ UNCHANGED <<uid, lung, file, arg, pred, ret, invoked, prev_ok>>

LungNet_load_weights_from_file ==
    /\ lung # None
    /\ lung.model # None
    /\ file # None
    /\ lung' = load_weights_by_name(lung, file)
    /\ UNCHANGED <<uid, cae, file, arg, pred, ret, invoked, prev_ok>>

(* The process ends and a new one constructs the objects again with the    *)
(* same arguments: the models and the name counters are gone, the weights  *)
(* file stays.                                                             *)
Unbuilt(self) == [self EXCEPT !.created = <<>>, !.err = "none", !.model = None, !.loaded = "none"]

Uid0 == [p \in {"input", "dense", "dropout"} |-> 1]

NewProcess ==
    /\ uid # Uid0
    /\ uid' = Uid0
    /\ cae' = IF cae = None THEN None ELSE Unbuilt(cae)
    /\ lung' = IF lung = None THEN None ELSE Unbuilt(lung)
    /\ UNCHANGED <<file, arg, pred, ret, invoked, prev_ok>>

---------------------------------------------------------------------------
(* The arguments the objects are constructed with, the arrays handed to    *)
(* predict and the outputs of the network.                                 *)

FilterTuples == {<<2>>, <<2, 3>>}
KernelSizes == {<<1, 1, 1>>, <<3, 3, 3>>}
Paddings == {"same", "valid"}
SpatialShapes == (1..MaxDim) \X (1..MaxDim) \X (1..MaxDim)
DropoutRates == {0, 50}     \* in percent
Probabilities == {0, 1}

CAEs ==
    {GaussianMixtureCAE(m, sh, nb, ks, pad, bn) :
        m \in 1..MaxGaussians, sh \in SpatialShapes, nb \in FilterTuples,
        ks \in KernelSizes, pad \in Paddings, bn \in BOOLEAN}

LungNets ==
    {LungNet(nb, ks, pad, bn, <<1, 2>>, <<4, 4>>, dr) :
        nb \in FilterTuples, ks \in KernelSizes, pad \in Paddings, bn \in BOOLEAN,
        dr \in DropoutRates}

(* Arrays of five dimensions and type float32 with one channel.            *)
ChannelArrays ==
    {Array("float32", <<n, sh[1], sh[2], sh[3], 1>>) : n \in 1..MaxBatch, sh \in SpatialShapes}

(* Arrays of any type, four to six dimensions and one or two channels.     *)
AnyArrays ==
    {Array(dt, <<n, sh[1], sh[2], sh[3]>> \o tail) :
        dt \in {"float32", "float64"}, n \in 1..MaxBatch, sh \in SpatialShapes,
        tail \in {<<>>, <<1>>, <<2>>, <<1, 1>>}}

(* What the network may compute for an array: per sample, a log-prior and  *)
(* a variance per gaussian (the autoencoder) or a probability (LungNet).   *)
NetOutputs(self, array, lps, sqs, ps) ==
    IF self = None THEN {}
    ELSE IF check_input_array(array) # NoExc THEN {None}
    ELSE IF self.cls = "GaussianMixtureCAE"
        THEN [log_prior : [1..array.shape[1] -> [1..self.n_gaussians -> lps]],
              sigma_sq : [1..array.shape[1] -> [1..self.n_gaussians -> sqs]]]
    ELSE [p : [1..array.shape[1] -> ps]]

NoCall ==
    /\ file = None /\ arg = None /\ pred = None /\ ret = None
    /\ invoked = FALSE /\ prev_ok = None

---------------------------------------------------------------------------
(* Specification of the reconstruction: a built autoencoder predicts.      *)

InitPredict ==
    /\ \E c \in CAEs : cae = build_model(c, Uid0) /\ uid = build_model_uid(c, Uid0)
    /\ lung = None
    /\ NoCall

NextPredict ==
    \/ \E array \in ChannelArrays : \E out \in NetOutputs(cae, array, LogPriors, Variances, Probabilities) :
            GaussianMixtureCAE_predict(array, out)
    \/ Return

SpecPredict == InitPredict /\ [][NextPredict]_vars

---------------------------------------------------------------------------
(* Specification of the input check: a built model of either class is      *)
(* handed arrays of any kind.                                              *)

InitInput ==
    /\ \/ /\ \E c \in {d \in CAEs : d.n_gaussians = 1 /\ ~d.batch_normalization /\ d.kernel_size = <<3, 3, 3>>} :
                cae = build_model(c, Uid0) /\ uid = build_model_uid(c, Uid0)
          /\ lung = None
       \/ /\ \E l \in {d \in LungNets : d.dropout_rate # 0 /\ d.kernel_size = <<3, 3, 3>>} :
                lung = build_model(l, Uid0) /\ uid = build_model_uid(l, Uid0)
          /\ cae = None
    /\ NoCall

NextInput ==
    \/ \E array \in AnyArrays : \E out \in NetOutputs(cae, array, {0}, {1}, {1}) :
            GaussianMixtureCAE_predict(array, out)
    \/ \E x \in AnyArrays : \E out \in NetOutputs(lung, x, {0}, {1}, {1}) :
            LungNet_predict(x, out)
    \/ Return

SpecInput == InitInput /\ [][NextInput]_vars

---------------------------------------------------------------------------
(* Specification of the transfer of weights: both objects are constructed, *)
(* built, trained and loaded in any order, within one process or several.  *)

InitTransfer ==
    /\ uid = Uid0
    /\ cae \in {c \in CAEs : c.n_gaussians = 1 /\ c.input_shape = <<MaxDim, MaxDim, MaxDim>> /\ c.padding = "same"}
    /\ lung \in {l \in LungNets : l.padding = "same" /\ l.dropout_rate # 0}
    /\ NoCall

NextTransfer ==
    \/ GaussianMixtureCAE_build_model
    \/ LungNet_build_model
    \/ GaussianMixtureCAE_fit_generator
    \/ LungNet_fit_generator
    \/ GaussianMixtureCAE_load_weights_from_file
    \/ LungNet_load_weights_from_file
    \/ NewProcess

SpecTransfer == InitTransfer /\ [][NextTransfer]_vars

---------------------------------------------------------------------------
(* Claims.                                                                 *)

Called == arg # None

ByCAE == Called /\ arg.self = "GaussianMixtureCAE"

ByLungNet == Called /\ arg.self = "LungNet"

Spatial(x) == SubSeq(x.shape, 2, 4)

IsFloat32(x) == x.dtype = "float32"

HasFiveDims(x) == Len(x.shape) = 5

OneChannel(x) == x.shape[Len(x.shape)] = 1

ValueErrorWith(msg) == [kind |-> "raise", exc |-> "ValueError", msg |-> msg]

(* C2: predict of either class accepts an array only if it has dtype       *)
(* float32, five dimensions and a last dimension of size 1; otherwise it   *)
(* raises ValueError, for the dtype first, then for the number of          *)
(* dimensions, then for the last dimension, and the underlying model's     *)
(* predict is not invoked.  An array that passes is handed to the built    *)
(* model.                                                                  *)
C2_InputCheck ==
    Called =>
        LET x == arg.array
            self == IF arg.self = "LungNet" THEN lung ELSE cae
        IN  /\ ~IsFloat32(x) =>
                ret = ValueErrorWith("Input array must be of type float32.") /\ ~invoked
            /\ IsFloat32(x) /\ ~HasFiveDims(x) =>
                /\ ret = ValueErrorWith("Input array must have exactly 5 dimensions: (samples, z, y, z, channels)")
                /\ ~invoked
            /\ IsFloat32(x) /\ HasFiveDims(x) /\ ~OneChannel(x) =>
                /\ ret = ValueErrorWith("Size of last dimension of input array must be exactly 1.")
                /\ ~invoked
            /\ ret.kind = "array" => IsFloat32(x) /\ HasFiveDims(x) /\ OneChannel(x)
            /\ IsFloat32(x) /\ HasFiveDims(x) /\ OneChannel(x) /\ self.model # None => invoked

(* A LungNet call rejected for its last dimension only, the third test.    *)
C2_Witness ==
    /\ ByLungNet
    /\ lung.model # None
    /\ IsFloat32(arg.array) /\ HasFiveDims(arg.array) /\ ~OneChannel(arg.array)
    /\ ret.kind = "raise" /\ ret.exc = "ValueError"
    /\ ~invoked

(* C5: a built LungNet has an input layer whose three spatial dimensions   *)
(* are unspecified and whose channel dimension is 1, it never rejects a    *)
(* checked array for its spatial size, and with 'same' padding it returns  *)
(* one probability per sample for every checked array, whatever size was   *)
(* predicted before; a built GaussianMixtureCAE has the input shape given  *)
(* at construction and rejects every checked array of another size.        *)
C5_VariableSize ==
    /\ lung # None /\ lung.model # None =>
            ModelInputShape(lung) = <<NoneDim, NoneDim, NoneDim, 1>>
    /\ cae # None /\ cae.model # None =>
            ModelInputShape(cae) = cae.input_shape \o <<1>>
    /\ ByLungNet /\ lung.model # None /\ check_input_array(arg.array) = NoExc =>
            /\ ret # ValueErrorWith("Error when checking input")
            /\ lung.padding = "same" => ret.kind = "array" /\ ret.shape = <<arg.array.shape[1], 1>>
    /\ ByCAE /\ cae.model # None /\ check_input_array(arg.array) = NoExc =>
            /\ Spatial(arg.array) # cae.input_shape => ret = ValueErrorWith("Error when checking input")
            /\ ret.kind = "array" => Spatial(arg.array) = cae.input_shape

(* One LungNet has returned a result for an array of one size and then for *)
(* an array of another size.                                               *)
C5_Witness ==
    /\ ByLungNet
    /\ ret.kind = "array"
    /\ prev_ok # None
    /\ prev_ok.spatial # Spatial(arg.array)

(* The gaussian predict is documented to pick for sample n (counted from 0) *)
(* given the rows the model returned: argmax over k of                     *)
(* exp(log_prior[n, k]) / sqrt(sigma_sq[n, k]).                            *)
K(rows, n, m) == argmax([k \in 1..m |-> Ratio(rows[n + 1][k], rows[n + 1][m + k])])

OutputLenAsClaimed(self) ==
    self.n_gaussians * (self.input_shape[1] * self.input_shape[2] * self.input_shape[3] + 2)

(* C1: for every valid input of shape (N, Z, Y, X, 1), N >= 1, predict of  *)
(* GaussianMixtureCAE returns an array of the same shape whose voxel       *)
(* (n, z, y, x) is mu[n, z, y, x, K_n], K_n being the argmax of            *)
(* prior/sigma over sample n's own mixture parameters.  It is stated for   *)
(* the models whose output has the length the layout of C4 gives it.       *)
C1_Original ==
    ( /\ ByCAE
      /\ cae.model # None
      /\ check_input_array(arg.array) = NoExc
      /\ Spatial(arg.array) = cae.input_shape
      /\ ModelOutputLen(cae) = OutputLenAsClaimed(cae) )
    => /\ ret.kind = "array"
       /\ ret.shape = arg.array.shape
       /\ \A i \in DOMAIN ret.data :
            ret.data[i] = MuValue(i[1], i[2], i[3], i[4], K(pred.rows, i[1], cae.n_gaussians))

(* C4: per sample the output of GaussianMixtureCAE is the concatenation of *)
(* n_gaussians log-priors, n_gaussians variances and n_gaussians*z*y*x     *)
(* means, of length n_gaussians*(z*y*x + 2) for the loss's c = z*y*x, and  *)
(* the split of predict at [n_gaussians, 2*n_gaussians] gives the three    *)
(* blocks back in this order.                                              *)
C4_Original ==
    ByCAE /\ pred # None =>
        LET m == cae.n_gaussians
            c == cae.loss.c
            rows == pred.rows
        IN  \A r \in 1..Len(rows) :
                /\ c = cae.input_shape[1] * cae.input_shape[2] * cae.input_shape[3]
                /\ Len(rows[r]) = m * (c + 2)
                /\ \A k \in 1..m : Slice(rows[r], 0, m)[k] \in LogPriors
                /\ \A k \in 1..m : Slice(rows[r], m, 2 * m)[k] \in Variances
                /\ Slice(rows[r], 2 * m, Len(rows[r])) =
                      [f \in 1..(m * c) |->
                          LET i == Unravel(f - 1, cae.input_shape \o <<m>>)
                          IN  MuValue(r - 1, i[1], i[2], i[3], i[4])]

Names(layers) == {layers[i].name : i \in 1..Len(layers)}

EncoderNames(layers) == {layers[i].name : i \in {j \in 1..Len(layers) : layers[j].part = "encoder"}}

OtherNames(layers) == {layers[i].name : i \in {j \in 1..Len(layers) : layers[j].part # "encoder"}}

UniqueNames(layers) == \A i, j \in 1..Len(layers) : layers[i].name = layers[j].name => i = j

(* The names of the layers of the autoencoder: those it built in this      *)
(* process or, when it was built in an earlier one, those in its file.     *)
CAEKnown == cae.created # <<>> \/ (file # None /\ file.writer = "GaussianMixtureCAE")

CAENames == IF cae.created # <<>> THEN Names(cae.created) ELSE FileNames(file)

CAEEncoderNames ==
    IF cae.created # <<>> THEN EncoderNames(cae.created)
    ELSE {n \in FileNames(file) : n \in EncoderNames(build_model(cae, Uid0).created)}

(* C3: for the same nb_filters_per_layer and batch_normalization, the      *)
(* encoder layer names LungNet builds are those GaussianMixtureCAE builds, *)
(* every name is unique within each model, no other layer of LungNet has   *)
(* a name of the autoencoder, and loading the autoencoder's file by name   *)
(* gives exactly LungNet's encoder layers the autoencoder's weights of     *)
(* the same name.                                                          *)
C3_Original ==
    ( /\ CAEKnown
      /\ lung.created # <<>>
      /\ lung.nb_filters_per_layer = cae.nb_filters_per_layer
      /\ lung.batch_normalization = cae.batch_normalization )
    => /\ EncoderNames(lung.created) = CAEEncoderNames
       /\ UniqueNames(lung.created)
       /\ UniqueNames(cae.created)
       /\ OtherNames(lung.created) \cap CAENames = {}
       /\ lung.model # None /\ lung.loaded = "GaussianMixtureCAE" =>
            \A i \in 1..Len(lung.model.layers) :
                LET l == lung.model.layers[i]
                    v == lung.model.weights[i]
                IN  IF l.part = "encoder" /\ l.w # <<>>
                    THEN v = [origin |-> "GaussianMixtureCAE", layer |-> l.name, trained |-> TRUE]
                    ELSE v.origin = "LungNet"

====
